---- MODULE Spec2Model ----
(***************************************************************************)
(* The generated argument parsers of the argen examples:                   *)
(*   examples/example.c, examples/example_cli.c, examples/simple.c         *)
(*       parse_args, a getopt_long loop followed by defaulting and the     *)
(*       positional distribution;                                          *)
(*   examples/simple_gen.c                                                 *)
(*       populate_args, a hand-rolled strcmp loop, and the main that       *)
(*       prints what it bound.                                             *)
(* A C string is a sequence of one-character strings, argv a sequence of   *)
(* C strings whose element i (C index) is argv[i+1]. getopt_long is the    *)
(* C library's (glibc, default PERMUTE ordering: the optstrings start with *)
(* neither '+' nor '-' and POSIXLY_CORRECT is not set).                    *)
(***************************************************************************)
EXTENDS Integers, Sequences, FiniteSets, TLC

VARIABLES prog, pc, argc, argv, argv0, d, ch, out, isset, i, io, oob

vars == <<prog, pc, argc, argv, argv0, d, ch, out, isset, i, io, oob>>

\* The largest number of arguments after the program name.
MaxArgs == 3

----------------------------------------------------------------------------
\* Values that are not C strings or ints.

\* The null pointer (argv[argc], optarg when there is no argument): a value
\* that is no C string, every character of a C string being one character.
NULL == <<"NULL">>

\* An object of the caller holds <<v>> once v was stored into it, and
\* Indeterminate while nothing was: main declares every output without an
\* initializer. An indeterminate object has some value of its type, any one
\* of them, and a read of it yields that value.
Indeterminate == <<>>

Stored(v) == <<v>>

Min(a, b) == IF a < b THEN a ELSE b

\* The 32-bit int that the unsigned constant hi * 2^16 + lo converts to.
ToInt32(hi, lo) == (IF hi >= 32768 THEN hi - 65536 ELSE hi) * 65536 + lo

----------------------------------------------------------------------------
\* The argument tokens.

ProgName     == <<"a">>
T_b          == <<"-","b">>
T_q          == <<"-","q">>
T_h          == <<"-","h">>
T_n          == <<"-","n">>
T_qb         == <<"-","q","b">>
T_dashdash   == <<"-","-">>
T_block_size == <<"-","-","b","l","o","c","k","-","s","i","z","e">>
T_block_eq   == <<"-","-","b","l","o","c","k","-","s","i","z","e","=","2","0">>
T_blocksize  == <<"-","-","b","l","o","c","k","s","i","z","e">>
T_bs         == <<"-","-","b","s">>
T_fav_number == <<"-","-","f","a","v","-","n","u","m","b","e","r">>
T_name       == <<"-","-","n","a","m","e">>
T_help       == <<"-","-","h","e","l","p">>
T_20         == <<"2","0">>
T_x          == <<"x">>
T_7          == <<"7">>
T_r7         == <<"\r","7">>
T_big        == <<"9","9","9","9","9","9","9","9","9","9","9">>
T_int_arg    == <<"-","-","i","n","t","_","a","r","g">>
T_int_eq     == <<"-","-","i","n","t","_","a","r","g","=","2","0">>
T_char_arg   == <<"-","-","c","h","a","r","_","a","r","g">>

GetoptTokens ==
  { T_b, T_q, T_qb, T_h, T_dashdash, T_block_size, T_block_eq, T_bs, T_blocksize,
    T_fav_number, T_name, T_20, T_x }

SimpleTokens == { T_b, T_q, T_n, T_block_size, T_block_eq, T_bs, T_help, T_20, T_x }

GenTokens == { T_int_arg, T_int_eq, T_char_arg, T_20, T_7, T_r7, T_big, T_x }

Programs == { "example", "example_cli", "simple", "simple_gen" }

TokensOf(p) ==
  CASE p = "simple"     -> SimpleTokens
    [] p = "simple_gen" -> GenTokens
    [] OTHER            -> GetoptTokens

RECURSIVE SeqsUpTo(_, _)
SeqsUpTo(S, n) ==
  IF n = 0 THEN { <<>> }
  ELSE LET shorter == SeqsUpTo(S, n - 1)
       IN shorter \cup { Append(s, t) : s \in { u \in shorter : Len(u) = n - 1 }, t \in S }

----------------------------------------------------------------------------
\* The C library: atoi, strcmp, strncmp.

IsDigit(c) == c \in { "0", "1", "2", "3", "4", "5", "6", "7", "8", "9" }

DigitVal(c) ==
  CASE c = "0" -> 0 [] c = "1" -> 1 [] c = "2" -> 2 [] c = "3" -> 3 [] c = "4" -> 4
    [] c = "5" -> 5 [] c = "6" -> 6 [] c = "7" -> 7 [] c = "8" -> 8 [] c = "9" -> 9

\* isspace in the C locale: space, \t, \n, \v (the character written here as
\* itself, code 11), \f and \r.
IsSpace(c) == c \in { " ", "\t", "\n", "", "\f", "\r" }

RECURSIVE SkipSpace(_, _)
SkipSpace(s, k) == IF k <= Len(s) /\ IsSpace(s[k]) THEN SkipSpace(s, k + 1) ELSE k

\* strtol accumulates the digits in an unsigned long: acc is that number as
\* four 16-bit limbs, most significant first, and carry what ran out of it.
MulAdd(acc, dgt) ==
  LET t0 == acc[4] * 10 + dgt
      t1 == acc[3] * 10 + t0 \div 65536
      t2 == acc[2] * 10 + t1 \div 65536
      t3 == acc[1] * 10 + t2 \div 65536
  IN [ limbs |-> <<t3 % 65536, t2 % 65536, t1 % 65536, t0 % 65536>>,
       carry |-> t3 \div 65536 ]

\* The longest run of digits from s[k] on: its value, and whether that value
\* ran out of the unsigned long.
RECURSIVE AtoiDigits(_, _, _, _)
AtoiDigits(s, k, acc, over) ==
  IF k <= Len(s) /\ IsDigit(s[k])
  THEN LET m == MulAdd(acc, DigitVal(s[k]))
       IN AtoiDigits(s, k + 1, m.limbs, over \/ m.carry > 0)
  ELSE [ limbs |-> acc, over |-> over ]

\* atoi: leading white space, an optional sign, then the longest run of digits;
\* 0 when there is none. No error is reported. atoi is (int) strtol(s, NULL, 10):
\* a number that long does not hold becomes LONG_MAX or LONG_MIN, and the
\* conversion to int keeps the low 32 bits. (The C standard leaves the result
\* undefined when int does not hold the number; this is what the library does.)
atoi(s) ==
  LET k == SkipSpace(s, 1)
      neg == k <= Len(s) /\ s[k] = "-"
      signed == k <= Len(s) /\ s[k] \in { "-", "+" }
      n == AtoiDigits(s, IF signed THEN k + 1 ELSE k, <<0, 0, 0, 0>>, FALSE)
      l == n.limbs
      low == ToInt32(l[3], l[4])
      beyondMax == n.over \/ l[1] >= 32768
      beyondMin == n.over \/ l[1] > 32768
                     \/ (l[1] = 32768 /\ <<l[2], l[3], l[4]>> # <<0, 0, 0>>)
  IN IF neg
       THEN IF beyondMin THEN 0
            ELSE IF low = ToInt32(32768, 0) THEN low ELSE 0 - low
       ELSE IF beyondMax THEN 0 - 1 ELSE low

\* !strcmp(a, b)
StrEq(a, b) == a = b

\* !strncmp(name, s, n): the first n characters of name are those of s.
StrNEq(name, s, n) == Len(name) >= n /\ SubSeq(name, 1, n) = SubSeq(s, 1, n)

----------------------------------------------------------------------------
\* The schemas: each parse_args' optstring and longopts table.

RequiredArgument == 1
NoArgument == 0

\* The character codes of the option letters of the optstrings.
Ord(c) == CASE c = "b" -> 98 [] c = "q" -> 113 [] c = "h" -> 104 [] c = "n" -> 110

\* '?', what getopt_long returns for an option it rejects.
QuestionMark == 63

N_block_size == <<"b","l","o","c","k","-","s","i","z","e">>
N_fav_number == <<"f","a","v","-","n","u","m","b","e","r">>
N_quiet      == <<"q","u","i","e","t">>
N_name       == <<"n","a","m","e">>
N_help       == <<"h","e","l","p">>
N_max_warp   == <<"m","a","x","_","w","a","r","p">>
N_cores      == <<"c","o","r","e","s">>

LongOpt(name, has_arg, val) == [name |-> name, has_arg |-> has_arg, val |-> val]

longopts_example ==
  << LongOpt(N_block_size, RequiredArgument, 98),
     LongOpt(N_fav_number, RequiredArgument, 33),
     LongOpt(N_quiet, NoArgument, 113),
     LongOpt(N_name, RequiredArgument, 68),
     LongOpt(N_help, NoArgument, 104) >>

longopts_example_cli ==
  << LongOpt(N_block_size, RequiredArgument, 98),
     LongOpt(N_fav_number, RequiredArgument, 166),
     LongOpt(N_quiet, NoArgument, 113),
     LongOpt(N_name, RequiredArgument, 34),
     LongOpt(N_help, NoArgument, 104) >>

longopts_simple ==
  << LongOpt(N_block_size, RequiredArgument, 98),
     LongOpt(N_max_warp, NoArgument, 113),
     LongOpt(N_cores, RequiredArgument, 110),
     LongOpt(N_help, NoArgument, 104) >>

longopts(p) ==
  CASE p = "example"     -> longopts_example
    [] p = "example_cli" -> longopts_example_cli
    [] p = "simple"      -> longopts_simple

optstring(p) ==
  IF p = "simple" THEN <<"b",":","q","n",":","h">> ELSE <<"b",":","q","h">>

\* The value the switch of parse_args handles as each output.
ValBlockSize == 98
ValQuiet     == 113
ValHelp      == 104
ValFaveNumber(p) == IF p = "example" THEN 33 ELSE 166
ValUsername(p) ==
  CASE p = "example" -> 68 [] p = "example_cli" -> 34 [] p = "simple" -> 110

----------------------------------------------------------------------------
\* getopt_long(argc, argv, optstring, longopts, NULL), as parse_args calls it.
\* g is the library's state between calls: optind, the position nextchar in
\* the element being scanned (0: none, or at its end), and the bounds
\* first_nonopt, last_nonopt of the non-options skipped so far. The result is
\* the state after the call with the returned value ret, optarg, the
\* permuted argv and the diagnostic written to stderr (or "none").

\* argv[k] is a non-option: it does not start with '-', or is "-" alone.
NONOPTION_P(av, k) ==
  LET t == av[k + 1] IN Len(t) = 0 \/ t[1] # "-" \/ Len(t) = 1

\* exchange: the non-options av[f..l) and the options av[l..o) swap places,
\* each block keeping its order.
Exchange(av, f, l, o) ==
  SubSeq(av, 1, f) \o SubSeq(av, l + 1, o) \o SubSeq(av, f + 1, l)
    \o SubSeq(av, o + 1, Len(av))

RECURSIVE SkipNonOptions(_, _, _)
SkipNonOptions(ac, av, k) ==
  IF k < ac /\ NONOPTION_P(av, k) THEN SkipNonOptions(ac, av, k + 1) ELSE k

\* The index of the first character of s at or after k that is '=', or
\* Len(s) + 1: the end of the option's name.
RECURSIVE NameEnd(_, _)
NameEnd(s, k) == IF k <= Len(s) /\ s[k] # "=" THEN NameEnd(s, k + 1) ELSE k

GetoptResult(g, ret, optind, nextchar, optarg, av, err) ==
  [ optind |-> optind, nextchar |-> nextchar,
    first_nonopt |-> g.first_nonopt, last_nonopt |-> g.last_nonopt,
    ret |-> ret, optarg |-> optarg, argv |-> av, err |-> err ]

\* process_long_option on the element av[g.optind], which starts with "--".
ProcessLongOption(ac, av, lo, g) ==
  LET tok == av[g.optind + 1]
      text == SubSeq(tok, 3, Len(tok))
      nameend == NameEnd(text, 1)
      namelen == nameend - 1
      exact == { k \in 1..Len(lo) : StrNEq(lo[k].name, text, namelen)
                                      /\ namelen = Len(lo[k].name) }
      abbrev == { k \in 1..Len(lo) : StrNEq(lo[k].name, text, namelen) }
      first == CHOOSE k \in abbrev : \A m \in abbrev : k <= m
      ambig == \E k \in abbrev : lo[k].has_arg # lo[first].has_arg
                                  \/ lo[k].val # lo[first].val
      pfound == IF exact # {} THEN lo[CHOOSE k \in exact : \A m \in exact : k <= m]
                ELSE lo[first]
      next == g.optind + 1
  IN IF exact = {} /\ abbrev # {} /\ ambig
       THEN GetoptResult(g, QuestionMark, next, 0, NULL, av, "ambiguous option")
     ELSE IF exact = {} /\ abbrev = {}
       THEN GetoptResult(g, QuestionMark, next, 0, NULL, av, "unrecognized option")
     ELSE IF nameend <= Len(text)
       THEN IF pfound.has_arg # NoArgument
              THEN GetoptResult(g, pfound.val, next, 0,
                                SubSeq(text, nameend + 1, Len(text)), av, "none")
              ELSE GetoptResult(g, QuestionMark, next, 0, NULL, av,
                                "option doesn't allow an argument")
     ELSE IF pfound.has_arg = RequiredArgument
       THEN IF next < ac
              THEN GetoptResult(g, pfound.val, next + 1, 0, av[next + 1], av, "none")
              ELSE GetoptResult(g, QuestionMark, next, 0, NULL, av,
                                "option requires an argument")
     ELSE GetoptResult(g, pfound.val, next, 0, NULL, av, "none")

\* The next short option character, at position g.nextchar of av[g.optind].
ProcessShortOption(ac, av, os, g) ==
  LET tok == av[g.optind + 1]
      c == tok[g.nextchar]
      atEnd == g.nextchar + 1 > Len(tok)
      rest == IF atEnd THEN 0 ELSE g.nextchar + 1
      optind1 == IF atEnd THEN g.optind + 1 ELSE g.optind
      temp == { k \in 1..Len(os) : os[k] = c }
      t == CHOOSE k \in temp : \A m \in temp : k <= m
      takesArg == t + 1 <= Len(os) /\ os[t + 1] = ":"
  IN IF temp = {} \/ c = ":" \/ c = ";"
       THEN GetoptResult(g, QuestionMark, optind1, rest, NULL, av, "invalid option")
     ELSE IF takesArg
       THEN IF ~atEnd
              THEN GetoptResult(g, Ord(c), optind1 + 1, 0,
                                SubSeq(tok, g.nextchar + 1, Len(tok)), av, "none")
            ELSE IF optind1 = ac
              THEN GetoptResult(g, QuestionMark, optind1, 0, NULL, av,
                                "option requires an argument")
            ELSE GetoptResult(g, Ord(c), optind1 + 1, 0, av[optind1 + 1], av, "none")
     ELSE GetoptResult(g, Ord(c), optind1, rest, NULL, av, "none")

\* _getopt_internal_r with ordering PERMUTE.
getopt_long(ac, av, os, lo, g) ==
  IF g.nextchar # 0 THEN ProcessShortOption(ac, av, os, g)
  ELSE
    LET l1 == Min(g.last_nonopt, g.optind)
        f1 == Min(g.first_nonopt, g.optind)
        ex1 == f1 # l1 /\ l1 # g.optind
        av1 == IF ex1 THEN Exchange(av, f1, l1, g.optind) ELSE av
        f2 == IF ex1 THEN f1 + (g.optind - l1)
              ELSE IF l1 # g.optind THEN g.optind ELSE f1
        o2 == SkipNonOptions(ac, av1, g.optind)
        dd == o2 # ac /\ StrEq(av1[o2 + 1], T_dashdash)
        ex2 == dd /\ f2 # o2 /\ o2 # o2 + 1
        av2 == IF ex2 THEN Exchange(av1, f2, o2, o2 + 1) ELSE av1
        f3 == IF ex2 THEN f2 + 1 ELSE IF dd /\ f2 = o2 THEN o2 + 1 ELSE f2
        l3 == IF dd THEN ac ELSE o2
        o3 == IF dd THEN ac ELSE o2
        h == [ g EXCEPT !.first_nonopt = f3, !.last_nonopt = l3, !.optind = o3 ]
    IN IF o3 = ac
         THEN GetoptResult(h, -1, IF f3 # l3 THEN f3 ELSE o3, 0, NULL, av2, "none")
       ELSE IF av2[o3 + 1][2] = "-"
         THEN ProcessLongOption(ac, av2, lo, h)
       ELSE ProcessShortOption(ac, av2, os, [ h EXCEPT !.nextchar = 2 ])

----------------------------------------------------------------------------
\* The state.
\*   prog   which program runs
\*   pc     where it is: "getopt" (the while loop of parse_args), "defaults",
\*          "positional", "populate" (the for loop of populate_args),
\*          "returned" (back in main), "done", "exited" (exit(1) in
\*          parse_args), "crashed" (killed by a signal)
\*   argc, argv   main's arguments; getopt_long permutes argv in place
\*   argv0  argv as the program was started with it
\*   d      the state of getopt_long: optind, nextchar, first_nonopt,
\*          last_nonopt, optarg
\*   ch     the local ch of parse_args
\*   out    the objects main declares and passes by address
\*   isset  the __isset locals of parse_args
\*   i      the loop index of populate_args
\*   io     what was written to stdout and stderr, and the exit status
\*          (-1 while the program runs)
\*   oob    an element argv[k] with k >= argc was read by the program

GetoptPrograms == { "example", "example_cli", "simple" }

Argvs(p) == { <<ProgName>> \o a : a \in SeqsUpTo(TokensOf(p), MaxArgs) }

NoOutputs ==
  [ block_size |-> Indeterminate, fave_number |-> Indeterminate,
    quiet |-> Indeterminate, username |-> Indeterminate,
    out_file |-> Indeterminate, in_file |-> Indeterminate,
    words |-> Indeterminate, words__size |-> Indeterminate,
    max_warp |-> Indeterminate,
    int_arg |-> Indeterminate, char_arg |-> Indeterminate,
    np_arg |-> Indeterminate ]

Init ==
  /\ prog \in Programs
  /\ argv \in Argvs(prog)
  /\ argv0 = argv
  /\ argc = Len(argv)
  /\ pc = IF prog = "simple_gen" THEN "populate" ELSE "getopt"
  /\ d = [ optind |-> 1, nextchar |-> 0, first_nonopt |-> 1, last_nonopt |-> 1,
           optarg |-> NULL ]
  /\ ch = Indeterminate
  /\ out = NoOutputs
  /\ isset = [ block_size |-> 0, fave_number |-> 0, username |-> 0 ]
  /\ i = 1
  /\ io = [ stdout |-> <<>>, stderr |-> <<>>, exit |-> -1 ]
  /\ oob = FALSE

\* argv[k] as C reads it: argv[argc] is the null pointer.
ArgvAt(av, ac, k) == IF k < ac THEN av[k + 1] ELSE NULL

\* usage(argv[0]); exit(1);
UsageExit(o) == [ o EXCEPT !.stdout = Append(@, "usage"), !.exit = 1 ]

----------------------------------------------------------------------------
\* parse_args: the option loop.

\* The call of getopt_long in the loop condition.
G == getopt_long(argc, argv, optstring(prog), longopts(prog), d)

\* What the call leaves in the library's state, in argv and on stderr.
LibState(r) ==
  [ optind |-> r.optind, nextchar |-> r.nextchar,
    first_nonopt |-> r.first_nonopt, last_nonopt |-> r.last_nonopt,
    optarg |-> r.optarg ]

GetoptEffects(r) ==
  /\ d' = LibState(r)
  /\ argv' = r.argv
  /\ ch' = Stored(r.ret)

\* The diagnostic getopt_long prints (opterr is 1).
Diagnosed(o, r) ==
  IF r.err = "none" THEN o ELSE [ o EXCEPT !.stderr = Append(@, r.err) ]

\* The case of the switch that handles the value c.
SwitchCase(p, c) ==
  IF c = ValBlockSize THEN "block_size"
  ELSE IF p # "simple" /\ c = ValFaveNumber(p) THEN "fave_number"
  ELSE IF c = ValQuiet THEN "quiet"
  ELSE IF c = ValUsername(p) THEN "username"
  ELSE IF c = 0 THEN "nothing"
  ELSE "usage"

\* The stores of the cases.
StoreBlockSize(o, optarg) == [ o EXCEPT !.block_size = Stored(atoi(optarg)) ]

StoreFaveNumber(o, optarg) == [ o EXCEPT !.fave_number = Stored(atoi(optarg)) ]

StoreQuiet(p, o) ==
  IF p = "simple" THEN [ o EXCEPT !.max_warp = Stored(1) ]
  ELSE [ o EXCEPT !.quiet = Stored(1) ]

StoreUsername(o, optarg) == [ o EXCEPT !.username = Stored(optarg) ]

\* case 98: *block_size = atoi(optarg); block_size__isset = 1;
OptBlockSize ==
  /\ pc = "getopt" /\ prog \in GetoptPrograms
  /\ \E r \in { G } :
     /\ r.ret # -1 /\ SwitchCase(prog, r.ret) = "block_size"
     /\ GetoptEffects(r)
     /\ out' = StoreBlockSize(out, r.optarg)
     /\ isset' = [ isset EXCEPT !.block_size = 1 ]
     /\ io' = Diagnosed(io, r)
     /\ UNCHANGED <<prog, argv0, pc, argc, i, oob>>

\* case 33 (166): *fave_number = atoi(optarg); fave_number__isset = 1;
OptFaveNumber ==
  /\ pc = "getopt" /\ prog \in GetoptPrograms
  /\ \E r \in { G } :
     /\ r.ret # -1 /\ SwitchCase(prog, r.ret) = "fave_number"
     /\ GetoptEffects(r)
     /\ out' = StoreFaveNumber(out, r.optarg)
     /\ isset' = [ isset EXCEPT !.fave_number = 1 ]
     /\ io' = Diagnosed(io, r)
     /\ UNCHANGED <<prog, argv0, pc, argc, i, oob>>

\* case 113: *quiet = 1; (simple.c: *max_warp = 1;)
OptQuiet ==
  /\ pc = "getopt" /\ prog \in GetoptPrograms
  /\ \E r \in { G } :
     /\ r.ret # -1 /\ SwitchCase(prog, r.ret) = "quiet"
     /\ GetoptEffects(r)
     /\ out' = StoreQuiet(prog, out)
     /\ io' = Diagnosed(io, r)
     /\ UNCHANGED <<prog, argv0, pc, argc, isset, i, oob>>

\* case 68 (34, 110): *username = optarg; username__isset = 1;
OptUsername ==
  /\ pc = "getopt" /\ prog \in GetoptPrograms
  /\ \E r \in { G } :
     /\ r.ret # -1 /\ SwitchCase(prog, r.ret) = "username"
     /\ GetoptEffects(r)
     /\ out' = StoreUsername(out, r.optarg)
     /\ isset' = [ isset EXCEPT !.username = 1 ]
     /\ io' = Diagnosed(io, r)
     /\ UNCHANGED <<prog, argv0, pc, argc, i, oob>>

\* case 'h': default: usage(argv[0]); exit(1);
OptUsage ==
  /\ pc = "getopt" /\ prog \in GetoptPrograms
  /\ \E r \in { G } :
     /\ r.ret # -1 /\ SwitchCase(prog, r.ret) = "usage"
     /\ GetoptEffects(r)
     /\ io' = UsageExit(Diagnosed(io, r))
     /\ pc' = "exited"
     /\ UNCHANGED <<prog, argv0, argc, out, isset, i, oob>>

\* getopt_long returns -1: the loop ends.
LoopEnd ==
  /\ pc = "getopt" /\ prog \in GetoptPrograms
  /\ \E r \in { G } :
     /\ r.ret = -1
     /\ GetoptEffects(r)
     /\ io' = Diagnosed(io, r)
     /\ pc' = "defaults"
     /\ UNCHANGED <<prog, argv0, argc, out, isset, i, oob>>

----------------------------------------------------------------------------
\* parse_args: defaulting and validation.

block_size__default == 12
\* 0xDEADBEEF
fave_number__default == ToInt32(57005, 48879)
username__default == <<"J","o","h","n"," ","S","m","i","t","h">>

\* example.c, example_cli.c: the three if (!x__isset) *x = x__default;
\* simple.c: the one of username.
Defaulted(p, o, s) ==
  [ o EXCEPT
      !.block_size = IF p # "simple" /\ s.block_size = 0
                     THEN Stored(block_size__default) ELSE @,
      !.fave_number = IF p # "simple" /\ s.fave_number = 0
                      THEN Stored(fave_number__default) ELSE @,
      !.username = IF s.username = 0 THEN Stored(username__default) ELSE @ ]

DefaultsExample ==
  /\ pc = "defaults" /\ prog \in { "example", "example_cli" }
  /\ out' = Defaulted(prog, out, isset)
  /\ pc' = "positional"
  /\ UNCHANGED <<prog, argv0, argc, argv, d, ch, isset, i, io, oob>>

\* simple.c: if (!block_size__isset) { usage(argv[0]); exit(1); }
RequiredSimple ==
  /\ pc = "defaults" /\ prog = "simple"
  /\ isset.block_size = 0
  /\ io' = UsageExit(io)
  /\ pc' = "exited"
  /\ UNCHANGED <<prog, argv0, argc, argv, d, ch, out, isset, i, oob>>

\* simple.c: if (!username__isset) *username = "John Smith";
DefaultsSimple ==
  /\ pc = "defaults" /\ prog = "simple"
  /\ isset.block_size # 0
  /\ out' = Defaulted(prog, out, isset)
  /\ pc' = "positional"
  /\ UNCHANGED <<prog, argv0, argc, argv, d, ch, isset, i, io, oob>>

----------------------------------------------------------------------------
\* parse_args: the positional arguments.

\* The check with its bound off by one.
TooFewPositionals_OffByOne(ac, optind) == ac - optind < 0

\* if (argc-optind < 1)
TooFewPositionals(ac, optind) == ac - optind < 1

\* example.c, example_cli.c: usage(argv[0]); exit(1);
MissingPositional ==
  /\ pc = "positional" /\ prog \in { "example", "example_cli" }
  /\ TooFewPositionals(argc, d.optind)
  /\ io' = UsageExit(io)
  /\ pc' = "exited"
  /\ UNCHANGED <<prog, argv0, argc, argv, d, ch, out, isset, i, oob>>

\* What the rest of parse_args stores: with a the local argv after
\* argv += optind (a C index into main's argv) and n the local argc after
\* argc -= optind, *out_file = argv[0]; then in_file and words while n > 0.
\* words is kept as the C index into main's argv it points at.
BoundPositionals(o, av, ac, optind) ==
  LET n1 == ac - optind - 1
      n2 == IF n1 > 0 THEN n1 - 1 ELSE n1
      o1 == [ o EXCEPT !.out_file = Stored(ArgvAt(av, ac, optind)) ]
      o2 == IF n1 > 0 THEN [ o1 EXCEPT !.in_file = Stored(ArgvAt(av, ac, optind + 1)) ]
            ELSE o1
  IN IF n2 > 0
       THEN [ o2 EXCEPT !.words = Stored(optind + 2), !.words__size = Stored(n2) ]
       ELSE o2

\* example.c, example_cli.c: lines 83 to 97, and the return.
BindPositionals ==
  /\ pc = "positional" /\ prog \in { "example", "example_cli" }
  /\ ~TooFewPositionals(argc, d.optind)
  /\ out' = BoundPositionals(out, argv, argc, d.optind)
  /\ oob' = (oob \/ d.optind >= argc)
  /\ pc' = "returned"
  /\ UNCHANGED <<prog, argv0, argc, argv, d, ch, isset, i, io>>

\* simple.c: while (optind < argc) { optind++; }
SkipPositional ==
  /\ pc = "positional" /\ prog = "simple"
  /\ d.optind < argc
  /\ d' = [ d EXCEPT !.optind = @ + 1 ]
  /\ UNCHANGED <<prog, argv0, pc, argc, argv, ch, out, isset, i, io, oob>>

\* simple.c: the loop ends and parse_args returns.
ReturnSimple ==
  /\ pc = "positional" /\ prog = "simple"
  /\ ~(d.optind < argc)
  /\ pc' = "returned"
  /\ UNCHANGED <<prog, argv0, argc, argv, d, ch, out, isset, i, io, oob>>

\* main of example.c, example_cli.c, simple.c: nothing is done with the
\* outputs, and main returns 0.
MainReturn ==
  /\ pc = "returned" /\ prog \in GetoptPrograms
  /\ io' = [ io EXCEPT !.exit = 0 ]
  /\ pc' = "done"
  /\ UNCHANGED <<prog, argv0, argc, argv, d, ch, out, isset, i, oob>>

----------------------------------------------------------------------------
\* simple_gen.c: populate_args and main.

\* The three branches of the loop body, argv[k+1] being a string.
StoreIntArg(o, av, ac, k) ==
  [ o EXCEPT !.int_arg = Stored(atoi(ArgvAt(av, ac, k + 1))) ]

StoreCharArg(o, av, ac, k) ==
  LET s == ArgvAt(av, ac, k + 1)
  IN [ o EXCEPT !.char_arg = Stored(IF Len(s) = 0 THEN "NUL" ELSE s[1]) ]

StoreNpArg(o, av, ac, k) == [ o EXCEPT !.np_arg = Stored(atoi(ArgvAt(av, ac, k))) ]

\* !strcmp(argv[i], "--int_arg"), argv[i+1] being a string:
\* *int_arg = atoi(argv[i+1]);
GenIntArg ==
  /\ pc = "populate" /\ i < argc
  /\ StrEq(argv[i + 1], T_int_arg)
  /\ i + 1 < argc
  /\ out' = StoreIntArg(out, argv, argc, i)
  /\ i' = i + 1
  /\ UNCHANGED <<prog, argv0, pc, argc, argv, d, ch, isset, io, oob>>

\* !strcmp(argv[i], "--char_arg"), argv[i+1] being a string:
\* *char_arg = argv[i + 1][0];
GenCharArg ==
  /\ pc = "populate" /\ i < argc
  /\ ~StrEq(argv[i + 1], T_int_arg) /\ StrEq(argv[i + 1], T_char_arg)
  /\ i + 1 < argc
  /\ out' = StoreCharArg(out, argv, argc, i)
  /\ i' = i + 1
  /\ UNCHANGED <<prog, argv0, pc, argc, argv, d, ch, isset, io, oob>>

\* Either option as the last argument: argv[i+1] is argv[argc], the null
\* pointer, which atoi or [0] dereferences. The behaviour is undefined: the
\* program is killed, or the object is left with some value of its type,
\* any one of them, and the loop goes on.
GenNullValue ==
  /\ pc = "populate" /\ i < argc
  /\ StrEq(argv[i + 1], T_int_arg) \/ StrEq(argv[i + 1], T_char_arg)
  /\ ~(i + 1 < argc)
  /\ oob' = TRUE
  /\ \/ /\ pc' = "crashed"
        /\ UNCHANGED <<out, i, io>>
     \/ /\ IF StrEq(argv[i + 1], T_int_arg)
             THEN out' = [ out EXCEPT !.int_arg = Indeterminate ]
             ELSE out' = [ out EXCEPT !.char_arg = Indeterminate ]
        /\ i' = i + 1
        /\ UNCHANGED <<pc, io>>
  /\ UNCHANGED <<prog, argv0, argc, argv, d, ch, isset>>

\* else: *np_arg = atoi(argv[i]);
GenNpArg ==
  /\ pc = "populate" /\ i < argc
  /\ ~StrEq(argv[i + 1], T_int_arg) /\ ~StrEq(argv[i + 1], T_char_arg)
  /\ out' = StoreNpArg(out, argv, argc, i)
  /\ i' = i + 1
  /\ UNCHANGED <<prog, argv0, pc, argc, argv, d, ch, isset, io, oob>>

\* i < argc fails: populate_args returns.
GenReturn ==
  /\ pc = "populate" /\ ~(i < argc)
  /\ pc' = "returned"
  /\ UNCHANGED <<prog, argv0, argc, argv, d, ch, out, isset, i, io, oob>>

\* main: the three printf, and the end of main. Each prints what its object
\* holds: <<v>> is v in print, and Indeterminate some int (%d) or some char
\* (%c), whichever the object happens to hold.
GenPrint ==
  /\ pc = "returned" /\ prog = "simple_gen"
  /\ io' = [ io EXCEPT !.stdout = <<out.int_arg, out.char_arg, out.np_arg>>,
                       !.exit = 0 ]
  /\ pc' = "done"
  /\ UNCHANGED <<prog, argv0, argc, argv, d, ch, out, isset, i, oob>>

----------------------------------------------------------------------------
\* Whole calls, as functions of the argument vector: what the steps above
\* compute from the first call of getopt_long to the return or the exit.

\* The while loop of parse_args from the library state g on.
RECURSIVE OptionLoop(_, _, _, _, _, _, _)
OptionLoop(p, ac, av, g, o, s, e) ==
  LET r == getopt_long(ac, av, optstring(p), longopts(p), g)
      c == SwitchCase(p, r.ret)
      e1 == IF r.err = "none" THEN e ELSE Append(e, r.err)
  IN IF r.ret = -1
       THEN [ exited |-> FALSE, out |-> o, isset |-> s, argv |-> r.argv,
              optind |-> r.optind, stderr |-> e1 ]
     ELSE IF c = "usage"
       THEN [ exited |-> TRUE, out |-> o, isset |-> s, argv |-> r.argv,
              optind |-> r.optind, stderr |-> e1 ]
     ELSE OptionLoop(p, ac, r.argv, LibState(r),
            CASE c = "block_size"  -> StoreBlockSize(o, r.optarg)
              [] c = "fave_number" -> StoreFaveNumber(o, r.optarg)
              [] c = "quiet"       -> StoreQuiet(p, o)
              [] c = "username"    -> StoreUsername(o, r.optarg)
              [] OTHER             -> o,
            CASE c = "block_size"  -> [ s EXCEPT !.block_size = 1 ]
              [] c = "fave_number" -> [ s EXCEPT !.fave_number = 1 ]
              [] c = "username"    -> [ s EXCEPT !.username = 1 ]
              [] OTHER             -> s,
            e1)

\* parse_args(argc, argv, ...) of program p on fresh outputs: whether it
\* returned (or called exit(1)), the outputs, and what stderr received.
parse_args(p, ac, av) ==
  LET L == OptionLoop(p, ac, av,
             [ optind |-> 1, nextchar |-> 0, first_nonopt |-> 1, last_nonopt |-> 1,
               optarg |-> NULL ],
             NoOutputs, [ block_size |-> 0, fave_number |-> 0, username |-> 0 ], <<>>)
      missing == IF p = "simple" THEN L.isset.block_size = 0
                 ELSE TooFewPositionals(ac, L.optind)
      o1 == Defaulted(p, L.out, L.isset)
  IN IF L.exited \/ missing
       THEN [ returned |-> FALSE, out |-> IF L.exited \/ p = "simple" THEN L.out ELSE o1,
              argv |-> L.argv, stderr |-> L.stderr ]
       ELSE [ returned |-> TRUE,
              out |-> IF p = "simple" THEN o1
                      ELSE BoundPositionals(o1, L.argv, ac, L.optind),
              argv |-> L.argv, stderr |-> L.stderr ]

\* populate_args on the outputs o from index k on; ub when an option name is
\* the last argument (the null pointer is then used as a string).
RECURSIVE populate_args(_, _, _, _)
populate_args(o, ac, av, k) ==
  IF ~(k < ac) THEN [ ub |-> FALSE, out |-> o ]
  ELSE IF StrEq(av[k + 1], T_int_arg)
    THEN IF k + 1 < ac THEN populate_args(StoreIntArg(o, av, ac, k), ac, av, k + 1)
         ELSE [ ub |-> TRUE, out |-> o ]
  ELSE IF StrEq(av[k + 1], T_char_arg)
    THEN IF k + 1 < ac THEN populate_args(StoreCharArg(o, av, ac, k), ac, av, k + 1)
         ELSE [ ub |-> TRUE, out |-> o ]
  ELSE populate_args(StoreNpArg(o, av, ac, k), ac, av, k + 1)

----------------------------------------------------------------------------
Next ==
  \/ OptBlockSize \/ OptFaveNumber \/ OptQuiet \/ OptUsername \/ OptUsage
  \/ LoopEnd
  \/ DefaultsExample \/ RequiredSimple \/ DefaultsSimple
  \/ MissingPositional \/ BindPositionals \/ SkipPositional \/ ReturnSimple
  \/ MainReturn
  \/ GenIntArg \/ GenCharArg \/ GenNullValue \/ GenNpArg \/ GenReturn \/ GenPrint

Spec == Init /\ [][Next]_vars

----------------------------------------------------------------------------
\* The steps and the whole calls agree.

Terminated == pc \in { "returned", "done", "exited", "crashed" }

StepsAgreeWithCalls ==
  /\ Terminated /\ prog \in GetoptPrograms =>
       LET R == parse_args(prog, argc, argv0)
       IN /\ R.returned = (pc # "exited")
          /\ R.out = out
          /\ R.stderr = io.stderr
  /\ Terminated /\ prog = "simple_gen" /\ ~oob =>
       LET R == populate_args(NoOutputs, argc, argv0, 1)
       IN ~R.ub /\ R.out = out

----------------------------------------------------------------------------
\* The properties.

Examples == { "example", "example_cli" }

\* parse_args is back in main.
Returned == pc \in { "returned", "done" }

\* The option loop of parse_args has ended by getopt_long returning -1.
ScanEnded == ch = Stored(-1) /\ pc \in { "positional", "returned", "done", "exited" }

\* The tokens left after option scanning: argv[optind .. argc-1].
Remaining == SubSeq(argv, d.optind + 1, argc)

\* a can be obtained from b by deleting elements.
RECURSIVE IsSubseq(_, _)
IsSubseq(a, b) ==
  IF a = <<>> THEN TRUE
  ELSE IF b = <<>> THEN FALSE
  ELSE IF Head(a) = Head(b) THEN IsSubseq(Tail(a), Tail(b))
  ELSE IsSubseq(a, Tail(b))

\* The number of tokens after the two fixed slots.
WordCount(rem) == IF Len(rem) > 2 THEN Len(rem) - 2 ELSE 0

\* The strings words points at, words and words__size being written.
WordsBound == SubSeq(argv, out.words[1] + 1, out.words[1] + out.words__size[1])

\* C1: in example.c and example_cli.c, once option scanning has ended, the
\* remaining tokens are in their original order, a vector with at least one
\* of them is accepted, and on return out_file is the 1st, in_file the 2nd
\* if there is one, words the tokens after it in order and words__size their
\* count.
C1_PositionalsBoundInOrder ==
  prog \in Examples /\ ScanEnded /\ pc # "positional" =>
    LET rem == Remaining
    IN /\ IsSubseq(rem, Tail(argv0))
       /\ Len(rem) >= 1 =>
            /\ Returned
            /\ out.out_file = Stored(rem[1])
            /\ Len(rem) >= 2 => out.in_file = Stored(rem[2])
            /\ out.words__size = Stored(WordCount(rem))
            /\ WordCount(rem) > 0 =>
                 out.words # Indeterminate /\ WordsBound = SubSeq(rem, 3, Len(rem))

\* C1 without the vectors that leave no token for words: what holds of the
\* code.
C1_BoundInOrderWhenWordsRemain ==
  prog \in Examples /\ ScanEnded /\ pc # "positional" =>
    LET rem == Remaining
    IN /\ IsSubseq(rem, Tail(argv0))
       /\ Len(rem) >= 1 =>
            /\ Returned
            /\ out.out_file = Stored(rem[1])
            /\ Len(rem) >= 2 => out.in_file = Stored(rem[2])
            /\ WordCount(rem) > 0 =>
                 /\ out.words__size = Stored(WordCount(rem))
                 /\ out.words # Indeterminate /\ WordsBound = SubSeq(rem, 3, Len(rem))

\* The option outputs of each schema.
OptionOutputs(p) ==
  IF p = "simple" THEN { "block_size", "max_warp", "username" }
  ELSE { "block_size", "fave_number", "quiet", "username" }

\* C2: after every successful return of parse_args, every option output of
\* the schema has been assigned, by the user's value or by a default.
C2_EveryOptionBound ==
  prog \in GetoptPrograms /\ Returned =>
    \A f \in OptionOutputs(prog) : out[f] # Indeterminate

\* The outputs that do have a value on every return.
C2_DefaultedOptionsBound ==
  prog \in GetoptPrograms /\ Returned =>
    \A f \in OptionOutputs(prog) \ { "quiet", "max_warp" } : out[f] # Indeterminate

\* C3: in example.c and example_cli.c no element argv[k], k >= argc, is ever
\* read; parse_args returns only when a token is left for out_file, which
\* is then that token; and a vector that leaves no positional token ends, for
\* every combination of options, in usage and exit(1) with out_file never
\* written, as does every run that parse_args ends.
C3_NoPositionalIsUsage ==
  prog \in Examples =>
    /\ ~oob
    /\ Returned =>
         /\ Len(Remaining) >= 1
         /\ out.out_file = Stored(Remaining[1])
    /\ ScanEnded /\ pc # "positional" /\ Len(Remaining) = 0 =>
         /\ pc = "exited"
         /\ io.exit = 1 /\ io.stdout = <<"usage">>
         /\ out.out_file = Indeterminate
    /\ pc = "exited" =>
         /\ io.exit = 1 /\ io.stdout = <<"usage">>
         /\ out.out_file = Indeterminate

\* C3's case: options were given, no token is left, and the run has ended.
C3_Witness ==
  /\ prog \in Examples /\ ScanEnded /\ pc = "exited"
  /\ Len(Remaining) = 0
  /\ isset.block_size = 1 /\ out.quiet = Stored(1)

\* C4: when parse_args returns and no token is left after the fixed slots,
\* words__size has been set to 0.
C4_EmptyVariadic ==
  prog \in Examples /\ Returned /\ WordCount(Remaining) = 0 =>
    out.words__size = Stored(0)

\* What the run of a vector asking for help leaves: the usage text on stdout,
\* nothing on stderr, exit status 1.
HelpOutcome == UsageExit([ stdout |-> <<>>, stderr |-> <<>>, exit |-> -1 ])

\* The option loop ended on the help flag.
HelpRequested == pc = "exited" /\ ch = Stored(ValHelp)

\* C5: a run that ends in exit(1) shows the outcome of a help request
\* (stdout, stderr, exit status) exactly when the help flag was recognized;
\* no parse error ends in that outcome.
C5_HelpDistinctFromErrors ==
  prog \in GetoptPrograms /\ pc = "exited" => (io = HelpOutcome <=> HelpRequested)

\* Every help request does end in HelpOutcome.
C5_HelpEndsInHelpOutcome ==
  prog \in GetoptPrograms /\ HelpRequested => io = HelpOutcome

----------------------------------------------------------------------------
\* Vectors that differ in the spelling of one option.

\* tok is "--name=value".
HasEq(tok) ==
  Len(tok) >= 3 /\ tok[1] = "-" /\ tok[2] = "-" /\ NameEnd(tok, 1) <= Len(tok)

\* av with "--name=value" at index k (of the sequence) replaced by the two
\* tokens "--name" and "value".
SplitEq(av, k) ==
  LET tok == av[k]
      e == NameEnd(tok, 1)
  IN SubSeq(av, 1, k - 1) \o << SubSeq(tok, 1, e - 1), SubSeq(tok, e + 1, Len(tok)) >>
       \o SubSeq(av, k + 1, Len(av))

\* The tokens that take the next token as their value, and the end of
\* options: after one of them a token need not be an option.
ValueTakers ==
  { T_b, T_qb, T_n, T_block_size, T_fav_number, T_name, T_int_arg, T_char_arg }

\* The token at index k of av stands where an option is looked for.
OptionPosition(av, k) ==
  \A j \in 2..(k - 1) : av[j] \notin ValueTakers /\ av[j] # T_dashdash

\* The bindings of a call: the outputs, words as the strings it points at.
BindingsOf(o, av) ==
  IF o.words = Indeterminate \/ o.words__size = Indeterminate THEN o
  ELSE [ o EXCEPT !.words =
           Stored(SubSeq(av, o.words[1] + 1, o.words[1] + o.words__size[1])) ]

\* C6, parse_args: the run of a vector with "--opt=v" ends as the run of the
\* vector with "--opt" "v" in its place does, with the same bindings.
C6_EqFormSameAsTwoTokens_parse_args ==
  prog \in GetoptPrograms /\ Terminated =>
    \A k \in 2..Len(argv0) :
      HasEq(argv0[k]) /\ OptionPosition(argv0, k) =>
        LET R == parse_args(prog, argc + 1, SplitEq(argv0, k))
        IN /\ R.returned = Returned
           /\ BindingsOf(R.out, R.argv) = BindingsOf(out, argv)

\* C6, populate_args: the same of "--int_arg=v" and "--int_arg" "v".
C6_EqFormSameAsTwoTokens_populate_args ==
  prog = "simple_gen" /\ Returned /\ ~oob =>
    \A k \in 2..Len(argv0) :
      HasEq(argv0[k]) /\ OptionPosition(argv0, k) =>
        populate_args(NoOutputs, argc + 1, SplitEq(argv0, k), 1).out = out

\* C6: "--opt=v" and "--opt v" produce the same bindings, in parse_args and
\* in populate_args.
C6_EqFormSameAsTwoTokens ==
  C6_EqFormSameAsTwoTokens_parse_args /\ C6_EqFormSameAsTwoTokens_populate_args

\* The aliases the usage text gives for --block-size.
Aliases == { T_blocksize, T_bs }

\* C7: a vector with the alias --blocksize or --bs of --block-size is never
\* reported as an unrecognized option, and its run ends as the run of the
\* vector with --block-size in its place does, with the same bindings.
C7_AliasesRecognized ==
  prog \in GetoptPrograms /\ Terminated =>
    \A k \in 2..Len(argv0) :
      argv0[k] \in Aliases /\ OptionPosition(argv0, k) =>
        LET R == parse_args(prog, argc, [ argv0 EXCEPT ![k] = T_block_size ])
        IN /\ \A m \in 1..Len(io.stderr) : io.stderr[m] # "unrecognized option"
           /\ R.returned = Returned
           /\ BindingsOf(R.out, R.argv) = BindingsOf(out, argv)

\* The run's last argument is a value-taking option with no value, and no
\* argument before it ends the parse (the help flag, a spelling getopt_long
\* rejects).
LastIsValueTaker ==
  /\ Len(argv0) >= 2
  /\ argv0[Len(argv0)] \in ValueTakers \ { T_qb }
  /\ OptionPosition(argv0, Len(argv0))
  /\ \A j \in 2..(Len(argv0) - 1) : argv0[j] \notin { T_h, T_help } \cup Aliases

\* C8, parse_args: a value-taking option as the last token ends the parse in
\* the missing-value error, nothing at or beyond argc being read.
C8_MissingOptionValue_parse_args ==
  prog \in GetoptPrograms /\ Terminated /\ LastIsValueTaker =>
    /\ pc = "exited" /\ ch = Stored(QuestionMark)
    /\ io.stderr = << "option requires an argument" >>
    /\ ~oob

\* C8, populate_args: --int_arg or --char_arg as the last token reads
\* nothing at or beyond argc and binds nothing.
C8_MissingOptionValue_populate_args ==
  prog = "simple_gen" /\ LastIsValueTaker /\ i >= argc =>
    /\ ~oob /\ pc # "crashed"
    /\ out.int_arg = Indeterminate /\ out.char_arg = Indeterminate

\* C8: a value-taking option that is the last token is a missing-value
\* error; the element at index argc is never read and the option is never
\* bound.
C8_MissingOptionValue ==
  C8_MissingOptionValue_parse_args /\ C8_MissingOptionValue_populate_args

\* s is the text of an integer: an optional sign and digits, nothing else.
IsIntegerText(s) ==
  LET from == IF Len(s) >= 1 /\ s[1] \in { "-", "+" } THEN 2 ELSE 1
  IN /\ s # NULL
     /\ from <= Len(s)
     /\ \A k \in from..Len(s) : IsDigit(s[k])

\* C9, parse_args: when the loop has just handled block-size or fav-number,
\* the value it converted is the text of an integer.
C9_InvalidOptionValue_parse_args ==
  /\ prog \in GetoptPrograms /\ pc = "getopt" /\ ch = Stored(ValBlockSize) =>
       IsIntegerText(d.optarg)
  /\ prog \in Examples /\ pc = "getopt" /\ ch = Stored(ValFaveNumber(prog)) =>
       IsIntegerText(d.optarg)

\* C9, populate_args: when the loop has just handled --int_arg, the value it
\* converted is the text of an integer.
C9_InvalidOptionValue_populate_args ==
  prog = "simple_gen" /\ pc = "populate" /\ i >= 2 /\ i < argc
    /\ StrEq(argv[i], T_int_arg) /\ out.int_arg # Indeterminate =>
      IsIntegerText(argv[i + 1])

\* C9: a value of an integer-typed option that is not the text of an integer
\* is never bound, as 0 or as anything else.
C9_InvalidOptionValue ==
  C9_InvalidOptionValue_parse_args /\ C9_InvalidOptionValue_populate_args

\* The tokens of av from index k on that are neither an option name nor the
\* token that follows one.
RECURSIVE PositionalTokens(_, _)
PositionalTokens(av, k) ==
  IF k > Len(av) THEN <<>>
  ELSE IF av[k] \in { T_int_arg, T_char_arg } THEN PositionalTokens(av, k + 2)
  ELSE << av[k] >> \o PositionalTokens(av, k + 1)

\* C10: when populate_args returns, np_arg is what the last token that is
\* neither an option name nor an option's value converts to, and was never
\* written when there is no such token.
C10_ValueNotReclassified ==
  prog = "simple_gen" /\ Returned /\ ~oob =>
    LET pos == PositionalTokens(argv0, 2)
    IN out.np_arg = IF pos = <<>> THEN Indeterminate
                    ELSE Stored(atoi(pos[Len(pos)]))

====
